---- MODULE Spec2Model ----
(***************************************************************************)
(* Log subscriptions of a Chainlink node (package services): a job's       *)
(* EthLog and RunLog initiators each get an RpcLogSubscription that reads  *)
(* the logs an Ethereum node pushes and starts job runs from them.         *)
(*                                                                         *)
(* Strings and byte slices are sequences of byte values (0..255); a Go     *)
(* string literal is written as the sequence of its ASCII codes.           *)
(***************************************************************************)
EXTENDS Integers, Sequences, FiniteSets, TLC

\* ------------------------------------------------------------------ bounds
\* Initiators over all jobs of a configuration.
MaxInitiators == 2
\* Subscriptions one job can have; also the initiators over all jobs of a configuration
\* when only StartJobSubscription runs.
MaxSlots == 3
\* Logs the node pushes over all subscriptions.
MaxEvents == 2
\* Calls of JobSubscription.Unsubscribe over all jobs.
MaxCloses == 2
\* The load of a run, a log counting 2, a call of Unsubscribe 1 and an error of the
\* node 1: runs have two logs, or one log and two more calls or errors.
MaxLoad == 4
\* Errors the node raises on subscriptions that are open.
MaxSourceErrors == 1

\* ------------------------------------------------------- program constants
EventTopicSignature == 0
EventTopicRequestID == 1
EventTopicJobID == 2
varLocationSize == 32
varLengthSize == 32

\* common.HexToHash("0x06f4bf36...b83fb2"), the 32 bytes of the hash.
RunLogTopic ==
    << 6, 244, 191, 54, 180, 224, 17, 165, 196, 153, 206, 241, 17, 60, 45, 22,
       104, 0, 206, 64, 19, 246, 194, 80, 156, 171, 26, 14, 146, 184, 63, 178 >>

InitiatorWeb == "web"
InitiatorCron == "cron"
InitiatorRunAt == "runat"
InitiatorEthLog == "ethlog"
InitiatorRunLog == "runlog"
InitiatorTypes ==
    {InitiatorWeb, InitiatorCron, InitiatorRunAt, InitiatorEthLog, InitiatorRunLog}

\* ------------------------------------------------------------ byte helpers
RECURSIVE Concat(_)
Concat(ss) == IF ss = << >> THEN << >> ELSE Head(ss) \o Concat(Tail(ss))

Zeros(n) == [i \in 1..n |-> 0]

\* The ASCII codes of "0123456789abcdef".
HexChars == << 48, 49, 50, 51, 52, 53, 54, 55, 56, 57, 97, 98, 99, 100, 101, 102 >>

\* common.Hash.Hex(): "0x" and two lower-case hex digits for each byte.
HashHex(h) ==
    << 48, 120 >> \o
    Concat([i \in 1..Len(h) |->
               << HexChars[(h[i] \div 16) + 1], HexChars[(h[i] % 16) + 1] >>])

IsHexChar(c) == \E d \in 1..16 : HexChars[d] = c
HexVal(c) == (CHOOSE d \in 1..16 : HexChars[d] = c) - 1

\* utils.HexToString: drops a leading "0x", decodes the digit pairs into bytes and
\* returns them as a string; an odd length or a non-digit is an error.
HexToString(hex) ==
    LET body == IF Len(hex) >= 2 /\ hex[1] = 48 /\ hex[2] = 120
                THEN SubSeq(hex, 3, Len(hex)) ELSE hex
    IN  IF Len(body) % 2 # 0 \/ \E i \in 1..Len(body) : ~IsHexChar(body[i])
        THEN [err |-> TRUE, str |-> << >>]
        ELSE [err |-> FALSE,
              str |-> [i \in 1..(Len(body) \div 2) |->
                          16 * HexVal(body[2 * i - 1]) + HexVal(body[2 * i])]]

TrimNothing(b) == b

\* bytes.TrimRight(b, "\x00")
RECURSIVE TrimRightZero(_)
TrimRightZero(b) ==
    IF b # << >> /\ b[Len(b)] = 0 THEN TrimRightZero(SubSeq(b, 1, Len(b) - 1)) ELSE b

\* ------------------------------------------------------------------- JSON
\* A models.JSON document is a sequence of <<key, value>> pairs of strings.  The
\* parser covers the documents the logs of this model carry: objects of string members
\* without white space or escapes; any other text is rejected.
Quote == 34
Colon == 58
Comma == 44
LBrace == 123
RBrace == 125
Backslash == 92

\* The index after the string literal that starts at b[i], 0 when there is none.
StringEnd(b, i) ==
    IF i > Len(b) \/ b[i] # Quote THEN 0
    ELSE LET closing == {k \in (i + 1)..Len(b) :
                            /\ b[k] = Quote
                            /\ \A m \in (i + 1)..(k - 1) :
                                  b[m] # Quote /\ b[m] # Backslash /\ b[m] >= 32}
         IN  IF closing = {} THEN 0 ELSE (CHOOSE k \in closing : TRUE) + 1

RECURSIVE ParseMembers(_, _)
ParseMembers(b, i) ==
    LET k1 == StringEnd(b, i)
        k2 == IF k1 = 0 \/ k1 > Len(b) \/ b[k1] # Colon THEN 0 ELSE StringEnd(b, k1 + 1)
    IN  IF k2 = 0 \/ k2 > Len(b) THEN [err |-> TRUE, js |-> << >>]
        ELSE LET pair == << SubSeq(b, i + 1, k1 - 2), SubSeq(b, k1 + 2, k2 - 2) >>
             IN  IF b[k2] = RBrace /\ k2 = Len(b)
                 THEN [err |-> FALSE, js |-> << pair >>]
                 ELSE IF b[k2] = Comma
                      THEN LET rest == ParseMembers(b, k2 + 1)
                           IN  [err |-> rest.err,
                                js |-> IF rest.err THEN << >> ELSE << pair >> \o rest.js]
                      ELSE [err |-> TRUE, js |-> << >>]

\* json.Unmarshal(b, &js)
jsonUnmarshal(b) ==
    IF b = << LBrace, RBrace >> THEN [err |-> FALSE, js |-> << >>]
    ELSE IF Len(b) < 2 \/ b[1] # LBrace THEN [err |-> TRUE, js |-> << >>]
    ELSE ParseMembers(b, 2)

\* models.JSON.Add: sets key to the string val, replacing a member of that name.
JSONAdd(js, key, val) ==
    IF \E i \in 1..Len(js) : js[i][1] = key
    THEN [i \in 1..Len(js) |-> IF js[i][1] = key THEN << key, val >> ELSE js[i]]
    ELSE Append(js, << key, val >>)

\* ------------------------------------------------------------ the decoder
\* The slice expression data[64:] panics when data is shorter than 64 bytes.
decodeABIToJSON(data) ==
    IF Len(data) < varLocationSize + varLengthSize
    THEN [panic |-> TRUE, err |-> FALSE, js |-> << >>]
    ELSE LET hex == SubSeq(data, varLocationSize + varLengthSize + 1, Len(data))
             r == jsonUnmarshal(TrimRightZero(hex))
         IN  [panic |-> FALSE, err |-> r.err, js |-> r.js]

\* "address", "dataPrefix", "functionSelector", "76005c26"
KeyAddress == << 97, 100, 100, 114, 101, 115, 115 >>
KeyDataPrefix == << 100, 97, 116, 97, 80, 114, 101, 102, 105, 120 >>
KeyFunctionSelector ==
    << 102, 117, 110, 99, 116, 105, 111, 110, 83, 101, 108, 101, 99, 116, 111, 114 >>
FunctionSelector == << 55, 54, 48, 48, 53, 99, 50, 54 >>

\* common.Address.String(): the hex form of the address (the letter case of the
\* checksum encoding is not modelled).
AddressString(a) == HashHex(a)

RunLogJSON(el) ==
    LET d == decodeABIToJSON(el.data)
    IN  IF d.panic \/ d.err THEN d
        ELSE [panic |-> FALSE, err |-> FALSE,
              js |-> JSONAdd(JSONAdd(JSONAdd(d.js, KeyAddress, AddressString(el.address)),
                                     KeyDataPrefix,
                                     HashHex(el.topics[EventTopicRequestID + 1])),
                             KeyFunctionSelector, FunctionSelector)]

\* "topics", "data"
KeyTopics == << 116, 111, 112, 105, 99, 115 >>
KeyData == << 100, 97, 116, 97 >>

\* json.Marshal of a types.Log never fails, and its output always parses; of the
\* record's fields the address, the topics (joined by commas) and the data are kept.
EthLogJSON(el) ==
    [panic |-> FALSE, err |-> FALSE,
     js |-> << << KeyAddress, AddressString(el.address) >>,
               << KeyTopics,
                  Concat([i \in 1..Len(el.topics) |->
                            (IF i = 1 THEN << >> ELSE << Comma >>) \o HashHex(el.topics[i])]) >>,
               << KeyData, HashHex(el.data) >> >>]

\* ---------------------------------------------------------- the validator
isRunLogAnySignature(log) == Len(log.topics) = 3

isRunLog(log) ==
    Len(log.topics) = 3 /\ log.topics[EventTopicSignature + 1] = RunLogTopic

jobIDFromLog(log) == HexToString(HashHex(log.topics[EventTopicJobID + 1]))

ValidateRunLogAnyJob(log, jobID) ==
    IF ~isRunLog(log) THEN FALSE
    ELSE ~jobIDFromLog(log).err

ValidateRunLog(log, jobID) ==
    IF ~isRunLog(log) THEN FALSE
    ELSE LET jid == jobIDFromLog(log)
         IN  IF jid.err THEN FALSE
             ELSE IF jid.str # jobID THEN FALSE
             ELSE TRUE

\* ---------------------------------------------------------- the dispatcher
\* What handling one log did: whether it panicked, whether the decoder was called,
\* the calls of BeginRun made, and the outcome.
runJobRetrying(engineOK) ==
    [panic |-> FALSE, decoded |-> TRUE, beginRuns |-> IF engineOK THEN 1 ELSE 2,
     outcome |-> IF engineOK THEN "run" ELSE "run_error"]

\* runJob calls BeginRun once; a rejection is logged.
runJob(engineOK) ==
    [panic |-> FALSE, decoded |-> TRUE, beginRuns |-> 1,
     outcome |-> IF engineOK THEN "run" ELSE "run_error"]

Dropped(decoded, outcome) ==
    [panic |-> FALSE, decoded |-> decoded, beginRuns |-> 0, outcome |-> outcome]

Panicked(outcome) ==
    [panic |-> TRUE, decoded |-> TRUE, beginRuns |-> 0, outcome |-> outcome]

ReceiveRunLog(log, jobID, engineOK) ==
    IF ~ValidateRunLog(log, jobID) THEN Dropped(FALSE, "skipped")
    ELSE LET d == RunLogJSON(log)
         IN  IF d.panic THEN Panicked("slice bounds out of range")
             ELSE IF d.err THEN Dropped(TRUE, "decode_error")
             ELSE runJob(engineOK)

ReceiveEthLogValidating(log, jobID, engineOK) ==
    IF ~ValidateRunLog(log, jobID) THEN Dropped(FALSE, "skipped")
    ELSE LET d == EthLogJSON(log)
         IN  IF d.err THEN Dropped(TRUE, "decode_error") ELSE runJob(engineOK)

ReceiveEthLog(log, jobID, engineOK) ==
    LET d == EthLogJSON(log)
    IN  IF d.err THEN Dropped(TRUE, "decode_error") ELSE runJob(engineOK)

\* ------------------------------------------------------- jobs and their logs
Jobs == {"A", "B"}

\* A job's ID: 32 characters, "a1a1...a1" and "a1a1...a2".
JobID(j) ==
    [i \in 1..32 |-> IF i % 2 = 1 THEN 97 ELSE IF i = 32 /\ j = "B" THEN 50 ELSE 49]

\* The address every initiator of the model watches, 0xabcd00...00.
WatchedAddress == [i \in 1..20 |-> IF i = 1 THEN 171 ELSE IF i = 2 THEN 205 ELSE 0]

\* The contract's encoding of the event's one string argument: a 32-byte location
\* word, a 32-byte length word, the bytes, zero padding to a 32-byte boundary.
EncodeString(x) ==
    Zeros(31) \o << 32 >> \o Zeros(31) \o << Len(x) >> \o x
        \o Zeros((32 - (Len(x) % 32)) % 32)

\* {"value":"100"} and the truncated {"value":
ValueDoc == << 123, 34, 118, 97, 108, 117, 101, 34, 58, 34, 49, 48, 48, 34, 125 >>
TruncatedDoc == << 123, 34, 118, 97, 108, 117, 101, 34, 58 >>

RequestIDTopic == Zeros(31) \o << 1 >>
OtherTopic == [i \in 1..32 |-> IF i = 32 THEN 179 ELSE RunLogTopic[i]]

ValidData == EncodeString(ValueDoc)

RunLogRequest(j, data) ==
    [address |-> WatchedAddress, topics |-> << RunLogTopic, RequestIDTopic, JobID(j) >>,
     data |-> data]

\* The logs the node may push.  The state holds a log as its index in this table.
LogTable ==
    << \* a request of job A, of job B
       RunLogRequest("A", ValidData),
       RunLogRequest("B", ValidData),
       \* another event's signature with the job ID of A
       [address |-> WatchedAddress,
        topics |-> << OtherTopic, RequestIDTopic, JobID("A") >>, data |-> ValidData],
       \* two topics, four topics
       [address |-> WatchedAddress,
        topics |-> << RunLogTopic, RequestIDTopic >>, data |-> ValidData],
       [address |-> WatchedAddress,
        topics |-> << RunLogTopic, RequestIDTopic, JobID("A"), RequestIDTopic >>,
        data |-> ValidData],
       \* a request of A whose string is not a JSON document
       RunLogRequest("A", EncodeString(TruncatedDoc)),
       \* a request of A with no data at all
       RunLogRequest("A", << >>) >>

Logs == 1..Len(LogTable)

NoLog == 0

\* ------------------------------------------------------------------ state
\* A slot <<j, k>> is the k-th subscription StartJobSubscription attempts for job j.
Slots == Jobs \X (1..MaxSlots)

VARIABLES
    initiators,        \* job -> its Initiators' types, in order
    main,              \* the caller: the operation in progress and its locals
    jobSub,            \* job -> the JobSubscription StartJobSubscription returned
    logNotifications,  \* slot -> the channel sub.logNotifications: nil, open, closed
    errors,            \* slot -> the channel sub.errors: nil, open, closed
    rpcSubscription,   \* slot -> sub.rpcSubscription: nil, subscribed, unsubscribed
    producer,          \* slot -> the node's forwarder that sends on logNotifications
    logListener,       \* slot -> the goroutine listenToLogs
    errListener,       \* slot -> the goroutine listenToSubscriptionErrors
    cur,               \* slot -> the log listenToLogs has received and is handling
    delivered,         \* logs received so far; a log's number is its rank
    handledCount,      \* logs whose handling has ended
    last,              \* what the log handled last did
    unsubscribeCalls,  \* slot -> calls of RpcLogSubscription.Unsubscribe so far
    closes,            \* job -> calls of JobSubscription.Unsubscribe so far
    closeReturns,      \* job -> calls of JobSubscription.Unsubscribe that returned
    panicked,          \* "" while the process runs, else the panic that ended it
    sourceErrors,      \* the slots the node has ended with an error on Err()
    errorsLogged,      \* the slots whose error listenToSubscriptionErrors has logged
    codec,             \* the payload codec exercised on its own
    oracle,            \* the Oracle contract
    auth               \* a call of TerminalAuthenticator.Authenticate

errVars == << sourceErrors, errorsLogged >>

sideVars == << codec, oracle, auth >>

serviceVars ==
    << initiators, main, jobSub, logNotifications, errors, rpcSubscription, producer,
       logListener, errListener, cur, delivered, handledCount, last,
       unsubscribeCalls, closes, closeReturns, panicked, errVars >>

vars == << serviceVars, sideVars >>

handledVars == << handledCount, last >>

subVars == << logNotifications, errors, rpcSubscription, producer, errListener >>

\* What a run has spent of MaxLoad: a log received counts two, an Unsubscribe and an
\* error of the node one each.
Load == 2 * delivered + closes["A"] + closes["B"] + Cardinality(sourceErrors)

\* The caller at rest. failed: the children of the Unsubscribe in progress whose
\* unsubscribe request the node refused.
Idle ==
    [op |-> "idle", job |-> "", i |-> 0, initSubs |-> << >>, merr |-> << >>,
     failed |-> {}]

NoJobSubscription == [state |-> "none", unsubscribers |-> << >>, err |-> << >>]

NoneHandled ==
    [job |-> "", k |-> 0, n |-> 0, log |-> NoLog, decoded |-> FALSE, beginRuns |-> 0,
     outcome |-> ""]

\* The side variables while the services are modelled.
NoCodec == [phase |-> "none"]
NoOracle == [phase |-> "none"]
NoAuth == [phase |-> "none"]

ErrNoInitiator == "Job must have a valid log initiator"

\* models.Job.InitiatorsFor: the job's initiators of one type, in their order.
InitiatorsFor(j, type) ==
    SelectSeq([i \in 1..Len(initiators[j]) |-> [Type |-> initiators[j][i], Index |-> i]],
              LAMBDA initr : initr.Type = type)

AttemptOrderEthLogOnly(j) == InitiatorsFor(j, InitiatorEthLog)

\* The initiators StartJobSubscription subscribes for, in the order of its two loops.
AttemptOrder(j) ==
    InitiatorsFor(j, InitiatorEthLog) \o InitiatorsFor(j, InitiatorRunLog)

SlotType(s) == AttemptOrder(s[1])[s[2]].Type

SeqsUpTo(n, S) == UNION {[1..m -> S] : m \in 0..n}

\* The configurations of at most n initiators over all jobs.
Configs(n) ==
    {f \in [Jobs -> SeqsUpTo(n, InitiatorTypes)] : Len(f["A"]) + Len(f["B"]) <= n}

\* Nothing has been called yet.
ServicesAtRest ==
    /\ main = Idle
    /\ jobSub = [j \in Jobs |-> NoJobSubscription]
    /\ logNotifications = [s \in Slots |-> "nil"]
    /\ errors = [s \in Slots |-> "nil"]
    /\ rpcSubscription = [s \in Slots |-> "nil"]
    /\ producer = [s \in Slots |-> "none"]
    /\ logListener = [s \in Slots |-> "none"]
    /\ errListener = [s \in Slots |-> "none"]
    /\ cur = [s \in Slots |-> [n |-> 0, log |-> NoLog]]
    /\ delivered = 0
    /\ handledCount = 0
    /\ last = NoneHandled
    /\ unsubscribeCalls = [s \in Slots |-> 0]
    /\ closes = [j \in Jobs |-> 0]
    /\ closeReturns = [j \in Jobs |-> 0]
    /\ panicked = ""
    /\ sourceErrors = {}
    /\ errorsLogged = {}

SideAtRest == codec = NoCodec /\ oracle = NoOracle /\ auth = NoAuth

Init ==
    /\ initiators \in Configs(MaxInitiators)
    /\ ServicesAtRest
    /\ SideAtRest

\* ------------------------------------------------------- StartJobSubscription
\* The call: merr and initSubs start empty.
StartJobSubscription(j) ==
    /\ panicked = ""
    /\ main.op = "idle"
    /\ jobSub[j].state = "none"
    /\ main' = [op |-> "start", job |-> j, i |-> 1, initSubs |-> << >>, merr |-> << >>,
                failed |-> {}]
    /\ UNCHANGED << errVars, sideVars, initiators, jobSub, subVars, logListener, cur, delivered, handledVars,
                    unsubscribeCalls, closes, closeReturns, panicked >>

NewRpcLogSubscriptionListenersFirst(subscribed) ==
    [logNotifications |-> "open",
     errors |-> "open",
     rpcSubscription |-> IF subscribed THEN "subscribed" ELSE "nil",
     listeners |-> "waiting",
     producer |-> IF subscribed THEN "running" ELSE "none",
     err |-> ~subscribed]

\* NewRpcLogSubscription: both channels are made, then the node is asked for the
\* logs; only when it accepts are the two listeners started.
NewRpcLogSubscription(subscribed) ==
    [logNotifications |-> "open",
     errors |-> "open",
     rpcSubscription |-> IF subscribed THEN "subscribed" ELSE "nil",
     listeners |-> IF subscribed THEN "waiting" ELSE "none",
     producer |-> IF subscribed THEN "running" ELSE "none",
     err |-> ~subscribed]

multierrFirstOnly(merr, err) == IF merr = << >> THEN << err >> ELSE merr

\* multierr.Append(merr, err) for a non-nil err: err is added after the errors merr
\* holds.
multierrAppend(merr, err) == Append(merr, err)

\* One pass of a loop of StartJobSubscription: StartEthLogSubscription or
\* StartRunLogSubscription for the next initiator, the error appended to merr and a
\* subscription that started appended to initSubs.
StartLogSubscription(subscribed) ==
    /\ panicked = ""
    /\ main.op = "start"
    /\ main.i <= Len(AttemptOrder(main.job))
    /\ LET s == << main.job, main.i >>
           sub == NewRpcLogSubscription(subscribed)
       IN  /\ logNotifications' = [logNotifications EXCEPT ![s] = sub.logNotifications]
           /\ errors' = [errors EXCEPT ![s] = sub.errors]
           /\ rpcSubscription' = [rpcSubscription EXCEPT ![s] = sub.rpcSubscription]
           /\ producer' = [producer EXCEPT ![s] = sub.producer]
           /\ logListener' = [logListener EXCEPT ![s] = sub.listeners]
           /\ errListener' = [errListener EXCEPT ![s] = sub.listeners]
           /\ main' = [main EXCEPT
                         !.i = @ + 1,
                         !.merr = IF sub.err
                                  THEN multierrAppend(@, << "subscribe",
                                                    AttemptOrder(main.job)[main.i].Index >>)
                                  ELSE @,
                         !.initSubs = IF sub.err THEN @ ELSE Append(@, main.i)]
    /\ UNCHANGED << errVars, sideVars, initiators, jobSub, cur, delivered, handledVars, unsubscribeCalls,
                    closes, closeReturns, panicked >>

\* The end of StartJobSubscription: no subscription started is an error of its own.
StartJobResult(initSubs, merr) ==
    IF Len(initSubs) = 0
    THEN [state |-> "failed", unsubscribers |-> << >>,
          err |-> Append(merr, ErrNoInitiator)]
    ELSE [state |-> "started", unsubscribers |-> initSubs, err |-> merr]

StartJobReturn ==
    /\ panicked = ""
    /\ main.op = "start"
    /\ main.i > Len(AttemptOrder(main.job))
    /\ jobSub' = [jobSub EXCEPT ![main.job] = StartJobResult(main.initSubs, main.merr)]
    /\ main' = Idle
    /\ UNCHANGED << errVars, sideVars, initiators, subVars, logListener, cur, delivered, handledVars,
                    unsubscribeCalls, closes, closeReturns, panicked >>

\* ------------------------------------------------------------- Unsubscribe
\* The call of JobSubscription.Unsubscribe on the handle of job j (also on the empty
\* handle a failed StartJobSubscription returns).
JobUnsubscribe(j) ==
    /\ panicked = ""
    /\ main.op = "idle"
    /\ jobSub[j].state # "none"
    /\ closes["A"] + closes["B"] < MaxCloses
    /\ Load + 1 <= MaxLoad
    /\ closes' = [closes EXCEPT ![j] = @ + 1]
    /\ main' = [op |-> "unsubscribe", job |-> j, i |-> 1, initSubs |-> << >>,
                merr |-> << >>, failed |-> {}]
    /\ UNCHANGED << errVars, sideVars, initiators, jobSub, subVars, logListener, cur, delivered, handledVars,
                    unsubscribeCalls, closeReturns, panicked >>

\* close(ch): closing a closed (or nil) channel panics.
CloseChan(ch) == IF ch = "open" THEN "closed" ELSE "panic"

RpcLogSubscriptionUnsubscribeLogsOnly(rpc, logCh, errCh) ==
    LET rpc2 == IF rpc # "nil" THEN "unsubscribed" ELSE rpc
    IN  IF CloseChan(logCh) = "panic"
        THEN [panic |-> TRUE, rpcSubscription |-> rpc2, logNotifications |-> logCh,
              errors |-> errCh]
        ELSE [panic |-> FALSE, rpcSubscription |-> rpc2,
              logNotifications |-> CloseChan(logCh), errors |-> errCh]

\* RpcLogSubscription.Unsubscribe: the rpc subscription is told to unsubscribe, then
\* both channels are closed, without waiting for the producer to stop.
RpcLogSubscriptionUnsubscribe(rpc, logCh, errCh) ==
    LET rpc2 == IF rpc # "nil" THEN "unsubscribed" ELSE rpc
    IN  IF CloseChan(logCh) = "panic"
        THEN [panic |-> TRUE, rpcSubscription |-> rpc2, logNotifications |-> logCh,
              errors |-> errCh]
        ELSE IF CloseChan(errCh) = "panic"
        THEN [panic |-> TRUE, rpcSubscription |-> rpc2,
              logNotifications |-> CloseChan(logCh), errors |-> errCh]
        ELSE [panic |-> FALSE, rpcSubscription |-> rpc2,
              logNotifications |-> CloseChan(logCh), errors |-> CloseChan(errCh)]

\* Where the loop of JobSubscription.Unsubscribe goes after the child at i: on to the
\* next one, whatever the node answered.
NextChildStoppingOnFailure(i, n, upstreamOK) == IF upstreamOK THEN i + 1 ELSE n + 1

NextChild(i, n, upstreamOK) == i + 1

\* One pass of the loop of JobSubscription.Unsubscribe: sub.Unsubscribe() of the next
\* child.  upstreamOK: the node accepted the unsubscribe request (nothing is reported
\* to the caller either way).
UnsubscribeChild(upstreamOK) ==
    /\ panicked = ""
    /\ main.op = "unsubscribe"
    /\ main.i <= Len(jobSub[main.job].unsubscribers)
    /\ LET s == << main.job, jobSub[main.job].unsubscribers[main.i] >>
           r == RpcLogSubscriptionUnsubscribe(rpcSubscription[s], logNotifications[s],
                                              errors[s])
       IN  /\ rpcSubscription' = [rpcSubscription EXCEPT ![s] = r.rpcSubscription]
           /\ logNotifications' = [logNotifications EXCEPT ![s] = r.logNotifications]
           /\ errors' = [errors EXCEPT ![s] = r.errors]
           /\ unsubscribeCalls' = [unsubscribeCalls EXCEPT ![s] = @ + 1]
           /\ panicked' = IF r.panic THEN "close of closed channel" ELSE panicked
           /\ main' = IF r.panic THEN main
                      ELSE LET refused == rpcSubscription[s] = "subscribed" /\ ~upstreamOK
                           IN  [main EXCEPT
                                  !.i = NextChild(@, Len(jobSub[main.job].unsubscribers),
                                                  ~refused),
                                  !.failed = IF refused THEN @ \cup {main.i} ELSE @]
    /\ UNCHANGED << errVars, sideVars, initiators, jobSub, producer, logListener, errListener, cur,
                    delivered, handledVars, closes, closeReturns >>

JobUnsubscribeReturn ==
    /\ panicked = ""
    /\ main.op = "unsubscribe"
    /\ main.i > Len(jobSub[main.job].unsubscribers)
    /\ closeReturns' = [closeReturns EXCEPT ![main.job] = @ + 1]
    /\ main' = Idle
    /\ UNCHANGED << errVars, sideVars, initiators, jobSub, subVars, logListener, cur, delivered, handledVars,
                    unsubscribeCalls, closes, panicked >>

\* ------------------------------------------------- the node and the listeners
CallReceiveLogAsync == "waiting"

\* listenToLogs calls sub.ReceiveLog in its loop body and takes the next log only
\* when the call has returned.
CallReceiveLog == "handling"

\* The node's forwarder sends a log on sub.logNotifications and listenToLogs, waiting
\* in its range loop, receives it (the channel is unbuffered).
Deliver(s, log) ==
    /\ panicked = ""
    /\ delivered < MaxEvents
    /\ Load + 2 <= MaxLoad
    /\ producer[s] = "running"
    /\ logNotifications[s] = "open"
    /\ logListener[s] = "waiting"
    /\ delivered' = delivered + 1
    /\ cur' = [cur EXCEPT ![s] = [n |-> delivered + 1, log |-> log]]
    /\ logListener' = [logListener EXCEPT ![s] = CallReceiveLog]
    /\ UNCHANGED << errVars, sideVars, initiators, main, jobSub, subVars, handledVars, unsubscribeCalls,
                    closes, closeReturns, panicked >>

\* The callback the subscription was made with.
ReceiveLog(type, log, jobID, engineOK) ==
    IF type = InitiatorRunLog THEN ReceiveRunLog(log, jobID, engineOK)
    ELSE ReceiveEthLog(log, jobID, engineOK)

\* ReceiveLog on every log of the table, for either kind of subscription, job and
\* answer of the execution engine, evaluated once.
Received ==
    [type \in {InitiatorEthLog, InitiatorRunLog}, j \in Jobs, log \in Logs,
     engineOK \in BOOLEAN |->
        ReceiveLog(type, LogTable[log], JobID(j), engineOK)]

\* The body of the loop of listenToLogs: sub.ReceiveLog on the log received.
\* engineOK: BeginRun returned no error.
Handle(s, engineOK) ==
    /\ panicked = ""
    /\ logListener[s] = "handling"
    /\ LET r == Received[SlotType(s), s[1], cur[s].log, engineOK]
       IN  /\ last' = [job |-> s[1], k |-> s[2], n |-> cur[s].n, log |-> cur[s].log,
                        decoded |-> r.decoded, beginRuns |-> r.beginRuns,
                        outcome |-> r.outcome]
           /\ handledCount' = handledCount + 1
           /\ panicked' = IF r.panic THEN r.outcome ELSE panicked
           /\ logListener' = [logListener EXCEPT
                                ![s] = IF r.panic THEN @ ELSE "waiting"]
           /\ cur' = [cur EXCEPT ![s] = IF r.panic THEN @ ELSE [n |-> 0, log |-> NoLog]]
    /\ UNCHANGED << errVars, sideVars, initiators, main, jobSub, subVars, delivered, unsubscribeCalls,
                    closes, closeReturns >>

HandleAny(s) == \E engineOK \in BOOLEAN : Handle(s, engineOK)

\* The range loop of listenToLogs ends when the channel is closed.
LogListenerExit(s) ==
    /\ panicked = ""
    /\ logListener[s] = "waiting"
    /\ logNotifications[s] = "closed"
    /\ logListener' = [logListener EXCEPT ![s] = "done"]
    /\ UNCHANGED << errVars, sideVars, initiators, main, jobSub, subVars, cur, delivered, handledVars,
                    unsubscribeCalls, closes, closeReturns, panicked >>

\* The range loop of listenToSubscriptionErrors ends when the channel is closed.
ErrListenerExit(s) ==
    /\ panicked = ""
    /\ errListener[s] = "waiting"
    /\ errors[s] = "closed"
    /\ errListener' = [errListener EXCEPT ![s] = "done"]
    /\ UNCHANGED << errVars, sideVars, initiators, main, jobSub, logNotifications, errors, rpcSubscription,
                    producer, logListener, cur, delivered, handledVars, unsubscribeCalls,
                    closes, closeReturns, panicked >>

\* The forwarder sees that the subscription was unsubscribed and stops.
ProducerStop(s) ==
    /\ panicked = ""
    /\ producer[s] = "running"
    /\ rpcSubscription[s] = "unsubscribed"
    /\ producer' = [producer EXCEPT ![s] = "stopped"]
    /\ UNCHANGED << errVars, sideVars, initiators, main, jobSub, logNotifications, errors, rpcSubscription,
                    logListener, errListener, cur, delivered, handledVars, unsubscribeCalls,
                    closes, closeReturns, panicked >>

\* The node ends a subscription with an error: the error is put on the channel
\* rpcSubscription.Err() returns and the forwarder stops.  Nothing in
\* NewRpcLogSubscription reads that channel or sends on sub.errors, so the error never
\* reaches listenToSubscriptionErrors: errorsLogged stays as it is in every step.
SourceError(s) ==
    /\ panicked = ""
    /\ rpcSubscription[s] = "subscribed"
    /\ producer[s] = "running"
    /\ s \notin sourceErrors
    /\ Cardinality(sourceErrors) < MaxSourceErrors
    /\ Load + 1 <= MaxLoad
    /\ sourceErrors' = sourceErrors \cup {s}
    /\ producer' = [producer EXCEPT ![s] = "stopped"]
    /\ UNCHANGED << errorsLogged, sideVars, initiators, main, jobSub, logNotifications,
                    errors, rpcSubscription, logListener, errListener, cur, delivered,
                    handledVars, unsubscribeCalls, closes, closeReturns, panicked >>

\* The forwarder, not stopped yet, sends a log on the channel Unsubscribe has closed.
SendOnClosed(s) ==
    /\ panicked = ""
    /\ producer[s] = "running"
    /\ logNotifications[s] = "closed"
    /\ panicked' = "send on closed channel"
    /\ UNCHANGED << errVars, sideVars, initiators, main, jobSub, subVars, logListener, cur, delivered,
                    handledVars, unsubscribeCalls, closes, closeReturns >>

\* ---------------------------------------------------------- specification
Next ==
    \/ \E j \in Jobs : StartJobSubscription(j)
    \/ \E subscribed \in BOOLEAN : StartLogSubscription(subscribed)
    \/ StartJobReturn
    \/ \E j \in Jobs : JobUnsubscribe(j)
    \/ \E upstreamOK \in BOOLEAN : UnsubscribeChild(upstreamOK)
    \/ JobUnsubscribeReturn
    \/ \E s \in Slots, log \in Logs : Deliver(s, log)
    \/ \E s \in Slots : HandleAny(s)
    \/ \E s \in Slots : LogListenerExit(s)
    \/ \E s \in Slots : ErrListenerExit(s)
    \/ \E s \in Slots : ProducerStop(s)
    \/ \E s \in Slots : SendOnClosed(s)
    \/ \E s \in Slots : SourceError(s)

Spec == Init /\ [][Next]_vars

\* StartJobSubscription alone, on configurations of up to MaxSlots initiators.
StartInit ==
    /\ initiators \in Configs(MaxSlots)
    /\ ServicesAtRest
    /\ SideAtRest

StartNext ==
    \/ \E j \in Jobs : StartJobSubscription(j)
    \/ \E subscribed \in BOOLEAN : StartLogSubscription(subscribed)
    \/ StartJobReturn

StartSpec == StartInit /\ [][StartNext]_vars

\* The scheduler runs every goroutine that can take a step, and an operation the
\* caller has started goes on; the caller's calls and the node's logs are not forced.
Fairness ==
    /\ \A s \in Slots :
          /\ WF_vars(HandleAny(s))
          /\ WF_vars(LogListenerExit(s))
          /\ WF_vars(ErrListenerExit(s))
          /\ WF_vars(ProducerStop(s))
    /\ WF_vars(\E subscribed \in BOOLEAN : StartLogSubscription(subscribed))
    /\ WF_vars(StartJobReturn)
    /\ WF_vars(\E upstreamOK \in BOOLEAN : UnsubscribeChild(upstreamOK))
    /\ WF_vars(JobUnsubscribeReturn)

FairSpec == Spec /\ Fairness

\* ------------------------------------------------------- the payload codec
\* Members a document of the codec's inputs has at most.
MaxMembers == 2

\* "a", "b"; "", "1", "100" and a value of 24 characters, with which a document of
\* one member "a" fills 32 bytes exactly.
DocKeys == {<< 97 >>, << 98 >>, KeyAddress}
DocValues == {<< >>, << 49 >>, << 49, 48, 48 >>, [i \in 1..24 |-> 120]}

\* The documents: up to MaxMembers members of distinct keys.
Docs ==
    {d \in SeqsUpTo(MaxMembers, DocKeys \X DocValues) :
        \A i, k \in 1..Len(d) : i # k => d[i][1] # d[k][1]}

\* The text of a document, as the requesting contract passes it to the Oracle.
Render(d) ==
    << LBrace >> \o
    Concat([i \in 1..Len(d) |->
               (IF i = 1 THEN << >> ELSE << Comma >>) \o
               << Quote >> \o d[i][1] \o << Quote, Colon, Quote >> \o d[i][2] \o << Quote >>])
    \o << RBrace >>

CodecInit ==
    /\ initiators = [j \in Jobs |-> << >>]
    /\ ServicesAtRest
    /\ oracle = NoOracle
    /\ auth = NoAuth
    /\ codec \in {[phase |-> "document", members |-> d, data |-> << >>,
                    out |-> [panic |-> FALSE, err |-> FALSE, js |-> << >>]] : d \in Docs}

\* The contract's event carries the document as an ABI-encoded string.
CodecEncode ==
    /\ codec.phase = "document"
    /\ codec' = [codec EXCEPT !.phase = "encoded",
                               !.data = EncodeString(Render(codec.members))]
    /\ UNCHANGED << serviceVars, oracle, auth >>

\* RunLogJSON on the log of the event.
CodecDecode ==
    /\ codec.phase = "encoded"
    /\ codec' = [codec EXCEPT !.phase = "decoded",
                               !.out = RunLogJSON(RunLogRequest("A", codec.data))]
    /\ UNCHANGED << serviceVars, oracle, auth >>

CodecNext == CodecEncode \/ CodecDecode

CodecSpec == CodecInit /\ [][CodecNext]_vars

\* ------------------------------------------------------- the Oracle contract
\* Requests the contract takes, and top-level calls made to it.
MaxRequests == 3
MaxCalls == 5

\* address(0); the contract that asks for data and is called back; the node's account,
\* which owns the Oracle and has no code; any other account.
ZeroAddress == "0x0"
Consumer == "consumer"
Owner == "node"
Stranger == "stranger"

RequestIds == 1..MaxRequests

\* The contract's storage and the Request events of the transactions that went through.
\* callbacks[id] is the addr of the Callback; fulfilled counts, for each id, the calls
\* of fulfillData that went through.
NewStorage ==
    [requestId |-> 0, callbacks |-> [id \in RequestIds |-> ZeroAddress], events |-> << >>,
     fulfilled |-> [id \in RequestIds |-> 0]]

NoCall == [fn |-> "none", sender |-> "", id |-> 0, result |-> "", before |-> NewStorage]

NoTx == [id |-> 0, sender |-> "", snapshot |-> NewStorage, reentered |-> FALSE]

\* requestData: the counter goes up by one, the callback is stored under the new id and
\* one Request event carries the id.
requestData(st, callbackAddress) ==
    [st EXCEPT !.requestId = @ + 1,
               !.callbacks = [@ EXCEPT ![st.requestId + 1] = callbackAddress],
               !.events = Append(@, st.requestId + 1)]

\* modifier onlyOwner
onlyOwner(sender) == sender = Owner

\* modifier hasRequestId; the mapping holds address(0) for every id never written.
hasRequestId(st, requestId) ==
    requestId \in RequestIds /\ st.callbacks[requestId] # ZeroAddress

keepCallback(st, requestId) == [st EXCEPT !.fulfilled = [@ EXCEPT ![requestId] = @ + 1]]

\* delete callbacks[_requestId], the last statement of a fulfillData that goes through.
deleteCallback(st, requestId) ==
    [st EXCEPT !.callbacks = [@ EXCEPT ![requestId] = ZeroAddress],
               !.fulfilled = [@ EXCEPT ![requestId] = @ + 1]]

OracleInit ==
    /\ initiators = [j \in Jobs |-> << >>]
    /\ ServicesAtRest
    /\ codec = NoCodec
    /\ auth = NoAuth
    /\ oracle = [phase |-> "idle", st |-> NewStorage, calls |-> 0, tx |-> NoTx,
                 last |-> NoCall]

\* A transaction that calls requestData.
RequestData(sender, callbackAddress) ==
    /\ oracle.phase = "idle"
    /\ oracle.calls < MaxCalls
    /\ oracle.st.requestId < MaxRequests
    /\ oracle' = [oracle EXCEPT
                     !.st = requestData(@, callbackAddress),
                     !.calls = @ + 1,
                     !.last = [fn |-> "requestData", sender |-> sender,
                               id |-> oracle.st.requestId + 1, result |-> "ok",
                               before |-> oracle.st]]
    /\ UNCHANGED << serviceVars, codec, auth >>

\* A transaction that calls fulfillData: a modifier's require reverts it, or the stored
\* callback is called.
FulfillData(sender, requestId) ==
    /\ oracle.phase = "idle"
    /\ oracle.calls < MaxCalls
    /\ oracle' = IF onlyOwner(sender) /\ hasRequestId(oracle.st, requestId)
                 THEN [oracle EXCEPT
                         !.phase = "callback",
                         !.calls = @ + 1,
                         !.tx = [id |-> requestId, sender |-> sender,
                                 snapshot |-> oracle.st, reentered |-> FALSE]]
                 ELSE [oracle EXCEPT
                         !.calls = @ + 1,
                         !.last = [fn |-> "fulfillData", sender |-> sender,
                                   id |-> requestId, result |-> "reverted",
                                   before |-> oracle.st]]
    /\ UNCHANGED << serviceVars, codec, auth >>

\* The callback, running, asks the Oracle for more data.
CallbackRequestData(callbackAddress) ==
    /\ oracle.phase = "callback"
    /\ oracle.st.requestId < MaxRequests
    /\ oracle' = [oracle EXCEPT !.st = requestData(@, callbackAddress)]
    /\ UNCHANGED << serviceVars, codec, auth >>

\* The callback, running, calls fulfillData: the sender is the Consumer, so onlyOwner
\* reverts the inner call and the storage stays as it is.
CallbackFulfillData(requestId) ==
    /\ oracle.phase = "callback"
    /\ ~oracle.tx.reentered
    /\ ~onlyOwner(Consumer)
    /\ oracle' = [oracle EXCEPT !.tx.reentered = TRUE]
    /\ UNCHANGED << serviceVars, codec, auth >>

\* The callback returns: require(cb.addr.call(...)) reverts the transaction when the
\* call failed, else the entry is deleted.
CallbackReturn(ok) ==
    /\ oracle.phase = "callback"
    /\ oracle' = [oracle EXCEPT
                     !.phase = "idle",
                     !.st = IF ok THEN deleteCallback(@, oracle.tx.id)
                            ELSE oracle.tx.snapshot,
                     !.tx = NoTx,
                     !.last = [fn |-> "fulfillData", sender |-> oracle.tx.sender,
                               id |-> oracle.tx.id,
                               result |-> IF ok THEN "ok" ELSE "reverted",
                               before |-> oracle.tx.snapshot]]
    /\ UNCHANGED << serviceVars, codec, auth >>

OracleNext ==
    \/ \E sender \in {Consumer, Stranger}, a \in {ZeroAddress, Consumer} :
          RequestData(sender, a)
    \/ \E sender \in {Owner, Stranger}, id \in 0..MaxRequests : FulfillData(sender, id)
    \/ \E a \in {ZeroAddress, Consumer} : CallbackRequestData(a)
    \/ \E id \in RequestIds : CallbackFulfillData(id)
    \/ \E ok \in BOOLEAN : CallbackReturn(ok)

OracleSpec == OracleInit /\ [][OracleNext]_vars

\* ------------------------------------------------- TerminalAuthenticator
\* Answers the Prompter gives in one call of Authenticate.
MaxPrompts == 4

\* The password of the KeyStore's account when there is one, and what else is typed.
AccountPassword == "secret"
Phrases == {AccountPassword, "wrong", "other"}

\* KeyStore.Unlock(phrase): no error exactly for the account's password.
Unlock(phrase) == phrase = AccountPassword

phrasesAlwaysMatch(phrase, phraseConfirmation) == TRUE

\* phrase == phraseConfirmation in createAccount
phrasesMatch(phrase, phraseConfirmation) == phrase = phraseConfirmation

\* Authenticate is called with pwd on a KeyStore with or without accounts.
\* prompts: the answers of the Prompter so far; created: the phrases NewAccount made an
\* account with; exits: the calls of Exiter; unlocked: an Unlock has succeeded.
AuthInit ==
    /\ initiators = [j \in Jobs |-> << >>]
    /\ ServicesAtRest
    /\ codec = NoCodec
    /\ oracle = NoOracle
    /\ auth \in {[phase |-> "called", pwd |-> pwd, hasAccounts |-> has, prompts |-> << >>,
                   created |-> << >>, exits |-> << >>, unlocked |-> FALSE] :
                      pwd \in Phrases \cup {""}, has \in BOOLEAN}

\* authenticateWithPwd: without accounts, or when checkPassword fails, Exiter(1).
authenticateWithPwd(a) ==
    IF ~a.hasAccounts THEN [a EXCEPT !.phase = "returned", !.exits = Append(@, 1)]
    ELSE IF ~Unlock(a.pwd) THEN [a EXCEPT !.phase = "returned", !.exits = Append(@, 1)]
    ELSE [a EXCEPT !.phase = "returned", !.unlocked = TRUE]

\* authenticationPrompt: on to promptAndCheckPassword or to createAccount.
authenticationPrompt(a) ==
    IF a.hasAccounts THEN [a EXCEPT !.phase = "promptAndCheckPassword"]
    ELSE [a EXCEPT !.phase = "createAccount"]

Authenticate ==
    /\ auth.phase = "called"
    /\ auth' = IF auth.pwd # "" THEN authenticateWithPwd(auth) ELSE authenticationPrompt(auth)
    /\ UNCHANGED << serviceVars, codec, oracle >>

\* One pass of the loop of promptAndCheckPassword.
PromptAndCheckPassword(phrase) ==
    /\ auth.phase = "promptAndCheckPassword"
    /\ Len(auth.prompts) < MaxPrompts
    /\ auth' = [auth EXCEPT
                   !.prompts = Append(@, phrase),
                   !.unlocked = Unlock(phrase),
                   !.phase = IF Unlock(phrase) THEN "returned" ELSE @]
    /\ UNCHANGED << serviceVars, codec, oracle >>

\* One pass of the loop of createAccount: two prompts, then NewAccount when the
\* answers are equal; accountOK: NewAccount returned no error (else logger.Fatal).
CreateAccount(phrase, phraseConfirmation, accountOK) ==
    /\ auth.phase = "createAccount"
    /\ Len(auth.prompts) + 2 <= MaxPrompts
    /\ auth' = [auth EXCEPT
                   !.prompts = @ \o << phrase, phraseConfirmation >>,
                   !.created = IF phrasesMatch(phrase, phraseConfirmation) /\ accountOK
                               THEN Append(@, phrase) ELSE @,
                   !.phase = IF ~phrasesMatch(phrase, phraseConfirmation) THEN @
                             ELSE IF accountOK THEN "returned" ELSE "fatal"]
    /\ UNCHANGED << serviceVars, codec, oracle >>

AuthNext ==
    \/ Authenticate
    \/ \E phrase \in Phrases : PromptAndCheckPassword(phrase)
    \/ \E phrase, phraseConfirmation \in Phrases, accountOK \in BOOLEAN :
          CreateAccount(phrase, phraseConfirmation, accountOK)

AuthSpec == AuthInit /\ [][AuthNext]_vars

\* ------------------------------------------------------------------ claims
RunLogSlot(j, k) == k \in 1..Len(AttemptOrder(j)) /\ AttemptOrder(j)[k].Type = InitiatorRunLog

\* The last handled log, when a RunLog subscription handled it.
LastOfRunLog == last.n > 0 /\ RunLogSlot(last.job, last.k)

LastLog == LogTable[last.log]

\* The log carries the RunLog signature in the first of exactly three topics.
HasRunLogSignature(log) == Len(log.topics) = 3 /\ log.topics[1] = RunLogTopic

\* The third topic holds the bytes of the ID of job j.
NamesJob(log, j) == Len(log.topics) >= 3 /\ log.topics[3] = JobID(j)

\* C1: a RunLog subscription calls BeginRun for a log only if the job ID in topics[2]
\* is the ID of the job it watches for; a log with the RunLog signature that names
\* another job is dropped; and of two RunLog subscriptions of different jobs that hold
\* the same log, at most one starts a run.
C1_DispatchOnlyToNamedJob ==
    /\ LastOfRunLog /\ last.beginRuns > 0 => NamesJob(LastLog, last.job)
    /\ LastOfRunLog /\ HasRunLogSignature(LastLog) /\ ~NamesJob(LastLog, last.job)
          => last.beginRuns = 0 /\ last.outcome = "skipped"
    /\ \A s1, s2 \in Slots :
          /\ s1[1] # s2[1]
          /\ logListener[s1] = "handling" /\ logListener[s2] = "handling"
          /\ RunLogSlot(s1[1], s1[2]) /\ RunLogSlot(s2[1], s2[2])
          /\ cur[s1].log = cur[s2].log
          => \A ok1, ok2 \in BOOLEAN :
                ~ /\ Received[InitiatorRunLog, s1[1], cur[s1].log, ok1].beginRuns > 0
                  /\ Received[InitiatorRunLog, s2[1], cur[s2].log, ok2].beginRuns > 0

\* A RunLog subscription has dropped a request that names the other job.
C1_Witness ==
    /\ LastOfRunLog
    /\ HasRunLogSignature(LastLog)
    /\ \E j \in Jobs : j # last.job /\ NamesJob(LastLog, j)
    /\ last.beginRuns = 0

\* C2: a RunLog subscription neither decodes nor dispatches a log that has not exactly
\* three topics or whose first topic is not RunLogTopic; what it decodes or dispatches
\* has the signature and names its job.
C2_RejectsOtherEvents ==
    /\ LastOfRunLog /\ ~HasRunLogSignature(LastLog)
          => ~last.decoded /\ last.beginRuns = 0 /\ last.outcome = "skipped"
    /\ LastOfRunLog /\ (last.decoded \/ last.beginRuns > 0)
          => HasRunLogSignature(LastLog) /\ NamesJob(LastLog, last.job)

\* A RunLog subscription has dropped a log of three topics that names its job under
\* another signature.
C2_Witness ==
    /\ LastOfRunLog
    /\ Len(LastLog.topics) = 3
    /\ LastLog.topics[1] # RunLogTopic
    /\ NamesJob(LastLog, last.job)
    /\ ~last.decoded
    /\ last.beginRuns = 0

\* C3: handling a log calls BeginRun at most once, also when BeginRun returns an error,
\* and no log is handled more often than it was received.
C3_AtMostOneRun ==
    /\ last.beginRuns <= 1
    /\ last.outcome = "run_error" => last.beginRuns = 1
    /\ handledCount <= delivered
    /\ last.n <= delivered
    /\ panicked = "" => \A s \in Slots : logListener[s] = "handling" => cur[s].n # last.n

\* The execution engine has rejected a run and the listener waits for the next log.
C3_Witness ==
    /\ last.outcome = "run_error"
    /\ last.beginRuns = 1
    /\ logListener[<< last.job, last.k >>] = "waiting"

\* A request of the watching job with a well-formed payload.
ValidRequest(log, j) ==
    /\ HasRunLogSignature(log)
    /\ NamesJob(log, j)
    /\ log.data = ValidData

\* C4: a valid request a RunLog subscription has received gets its run: the process
\* never ends while the listener holds such a log it has not handled.
C4_ValidRequestRuns ==
    \A s \in Slots :
        /\ logListener[s] = "handling"
        /\ RunLogSlot(s[1], s[2])
        /\ ValidRequest(LogTable[cur[s].log], s[1])
        => panicked = ""

\* C5: no send hits a closed channel: a closed logNotifications has no running
\* producer.
C5_NoSendOnClosed ==
    /\ panicked # "send on closed channel"
    /\ \A s \in Slots : logNotifications[s] = "closed" => producer[s] # "running"

\* C6: no child is closed twice, and a second Unsubscribe does not crash.
C6_ClosedOnce ==
    /\ \A s \in Slots : unsubscribeCalls[s] <= 1
    /\ panicked # "close of closed channel"

Closed(s) ==
    /\ rpcSubscription[s] = "unsubscribed"
    /\ logNotifications[s] = "closed"
    /\ errors[s] = "closed"

\* C7: once JobSubscription.Unsubscribe has returned, every subscription of the job
\* that was opened is unsubscribed from the node and has both channels closed.
C7_UnsubscribeClosesAll ==
    \A j \in Jobs :
        closeReturns[j] >= 1 =>
            /\ \A i \in 1..Len(jobSub[j].unsubscribers) :
                  Closed(<< j, jobSub[j].unsubscribers[i] >>)
            /\ \A k \in 1..MaxInitiators :
                  rpcSubscription[<< j, k >>] # "nil" => Closed(<< j, k >>)

\* Unsubscribe has returned on a handle of two subscriptions.
C7_Witness ==
    \E j \in Jobs :
        /\ closeReturns[j] >= 1
        /\ Len(jobSub[j].unsubscribers) = 2
        /\ \A i \in 1..2 : Closed(<< j, jobSub[j].unsubscribers[i] >>)

\* C8: when the loop of JobSubscription.Unsubscribe is through, every child after one
\* whose unsubscribe request the node refused is closed too; and when closing a child
\* panics, no child of the handle is still open.
C8_BestEffortTeardown ==
    /\ main.op = "unsubscribe" /\ main.i > Len(jobSub[main.job].unsubscribers)
          => \A f \in main.failed :
                \A i \in (f + 1)..Len(jobSub[main.job].unsubscribers) :
                    LET s == << main.job, jobSub[main.job].unsubscribers[i] >>
                    IN  logNotifications[s] = "closed" /\ errors[s] = "closed"
    /\ panicked = "close of closed channel"
          => \A i \in 1..Len(jobSub[main.job].unsubscribers) :
                logNotifications[<< main.job, jobSub[main.job].unsubscribers[i] >>]
                    # "open"

\* The loop is through, the node refused the first child's request, and the second
\* child is closed.
C8_Witness ==
    /\ main.op = "unsubscribe"
    /\ Len(jobSub[main.job].unsubscribers) = 2
    /\ main.i = 3
    /\ 1 \in main.failed
    /\ logNotifications[<< main.job, jobSub[main.job].unsubscribers[2] >>] = "closed"

\* The places of the job's EthLog and RunLog initiators.
LogInitiatorIndices(j) ==
    {i \in 1..Len(initiators[j]) : initiators[j][i] \in {InitiatorEthLog, InitiatorRunLog}}

IsSubscribeError(e) == e # ErrNoInitiator

NoSubscribeError(j) ==
    \A i \in 1..Len(jobSub[j].err) : ~IsSubscribeError(jobSub[j].err[i])

\* C9: for a job with a log initiator, when no subscribe request failed,
\* StartJobSubscription returns no error and a handle with one subscription for each
\* EthLog and RunLog initiator, and none for another initiator.
C9_OnePerLogInitiator ==
    \A j \in Jobs :
        jobSub[j].state # "none" /\ LogInitiatorIndices(j) # {} /\ NoSubscribeError(j)
        => /\ jobSub[j].state = "started"
           /\ jobSub[j].err = << >>
           /\ Len(jobSub[j].unsubscribers) = Cardinality(LogInitiatorIndices(j))
           /\ {AttemptOrder(j)[jobSub[j].unsubscribers[i]].Index :
                  i \in 1..Len(jobSub[j].unsubscribers)} = LogInitiatorIndices(j)
           /\ \A i \in 1..Len(jobSub[j].unsubscribers) :
                 rpcSubscription[<< j, jobSub[j].unsubscribers[i] >>] # "nil"

\* A job of a RunLog and an EthLog initiator has a handle of two subscriptions.
C9_Witness ==
    \E j \in Jobs :
        /\ initiators[j] = << InitiatorRunLog, InitiatorEthLog >>
        /\ jobSub[j].state = "started"
        /\ jobSub[j].err = << >>
        /\ Len(jobSub[j].unsubscribers) = 2

\* The subscriptions StartJobSubscription attempted for job j.
Attempted(j) == {k \in 1..MaxInitiators : logNotifications[<< j, k >>] # "nil"}

NoneOpened(j) == \A k \in 1..MaxInitiators : rpcSubscription[<< j, k >>] = "nil"

FailedEmpty(j) ==
    /\ jobSub[j].state = "failed"
    /\ jobSub[j].unsubscribers = << >>
    /\ jobSub[j].err # << >>
    /\ jobSub[j].err[Len(jobSub[j].err)] = ErrNoInitiator
    /\ \A k \in 1..MaxInitiators :
          /\ logListener[<< j, k >>] = "none"
          /\ errListener[<< j, k >>] = "none"
          /\ producer[<< j, k >>] = "none"

\* C10 as claimed: when no subscription opened, StartJobSubscription returns an error
\* and an empty handle, no listener runs, and no channel of a failed attempt is open.
C10_NothingLeftOpen ==
    \A j \in Jobs :
        jobSub[j].state # "none" /\ NoneOpened(j)
        => /\ FailedEmpty(j)
           /\ \A k \in Attempted(j) :
                 logNotifications[<< j, k >>] # "open" /\ errors[<< j, k >>] # "open"

\* C10 as amended: when no subscription opened, StartJobSubscription returns an error
\* and an empty handle and no listener or producer runs; the two channels of each failed
\* attempt stay open, held by nothing.
C10_NothingRetained ==
    \A j \in Jobs :
        jobSub[j].state # "none" /\ NoneOpened(j)
        => /\ FailedEmpty(j)
           /\ \A k \in Attempted(j) :
                 logNotifications[<< j, k >>] = "open" /\ errors[<< j, k >>] = "open"

\* StartJobSubscription has failed after an attempt for each of two log initiators.
C10_Witness ==
    \E j \in Jobs :
        /\ jobSub[j].state = "failed"
        /\ Attempted(j) = {1, 2}
        /\ Len(jobSub[j].err) = 3

\* The numbers in 1..n that satisfy Test, in ascending order.
Ascending(n, Test(_)) == SelectSeq([k \in 1..n |-> k], Test)

\* The attempts for job j that opened, and those that failed, in the order made.
OpenedAttempts(j) ==
    Ascending(MaxSlots, LAMBDA k : rpcSubscription[<< j, k >>] # "nil")

FailedAttempts(j) ==
    Ascending(MaxSlots, LAMBDA k : /\ logNotifications[<< j, k >>] # "nil"
                                   /\ rpcSubscription[<< j, k >>] = "nil")

\* The subscribe errors of the combined error, without the final error of the job.
SubscribeErrors(j) == SelectSeq(jobSub[j].err, IsSubscribeError)

\* Of two initiators of a job, the one StartJobSubscription must attempt first: an
\* EthLog one before a RunLog one, and of one type the one listed first.
AttemptedBefore(j, i1, i2) ==
    \/ initiators[j][i1] = InitiatorEthLog /\ initiators[j][i2] = InitiatorRunLog
    \/ initiators[j][i1] = initiators[j][i2] /\ i1 < i2

\* C11: the handle StartJobSubscription returns holds exactly the subscriptions that
\* opened; its error holds one error for every attempt that failed, EthLog initiators
\* before RunLog initiators and each kind in the job's order; and the handle is empty,
\* with the error of the job added, exactly when no attempt opened.
C11_PartialFailure ==
    \A j \in Jobs :
        jobSub[j].state # "none" =>
            /\ jobSub[j].unsubscribers = OpenedAttempts(j)
            /\ Len(SubscribeErrors(j)) = Len(FailedAttempts(j))
            /\ \A i \in 1..Len(FailedAttempts(j)) :
                  SubscribeErrors(j)[i]
                      = << "subscribe", AttemptOrder(j)[FailedAttempts(j)[i]].Index >>
            /\ \A i1, i2 \in 1..Len(SubscribeErrors(j)) :
                  i1 < i2 => AttemptedBefore(j, SubscribeErrors(j)[i1][2],
                                             SubscribeErrors(j)[i2][2])
            /\ Len(OpenedAttempts(j)) + Len(FailedAttempts(j))
                  = Cardinality(LogInitiatorIndices(j))
            /\ jobSub[j].state = "failed" <=> OpenedAttempts(j) = << >>
            /\ jobSub[j].state = "started" => jobSub[j].err = SubscribeErrors(j)

\* A RunLog initiator listed first and an EthLog initiator failed, in the other order,
\* and the handle holds the one subscription that opened.
C11_Witness ==
    \E j \in Jobs :
        /\ jobSub[j].state = "started"
        /\ initiators[j][1] = InitiatorRunLog
        /\ Len(jobSub[j].unsubscribers) = 1
        /\ Len(jobSub[j].err) = 2
        /\ jobSub[j].err[2] = << "subscribe", 1 >>

\* The subscriptions whose handler is running.
Handling == {s \in Slots : logListener[s] = "handling"}

\* C12: a subscription handles its logs one at a time and in the order received: a log
\* is held exactly while the handler runs, every log received is handled or being
\* handled (none is skipped), the log being handled was received after the one the
\* subscription handled before, and a log is received only when the handler has
\* returned.
C12_FifoOneAtATime ==
    /\ \A s \in Slots : cur[s].n > 0 <=> logListener[s] = "handling"
    /\ panicked = "" => delivered = handledCount + Cardinality(Handling)
    /\ \A s \in Handling :
          /\ cur[s].n <= delivered
          /\ panicked = "" /\ << last.job, last.k >> = s => last.n < cur[s].n
    /\ \A s1, s2 \in Handling : s1 # s2 => cur[s1].n # cur[s2].n

\* A subscription has handled its first log and is handling its second.
C12_Witness ==
    /\ delivered = 2
    /\ handledCount = 1
    /\ last.n = 1
    /\ logListener[<< last.job, last.k >>] = "handling"
    /\ cur[<< last.job, last.k >>].n = 2

\* C13: an error the node raised on a subscription is received and logged by the
\* subscription's error listener: the listener never ends with such an error unlogged.
C13_SourceErrorsLogged ==
    \A s \in sourceErrors : errListener[s] = "done" => s \in errorsLogged

\* The subscription that handled the last log.
LastSlot == << last.job, last.k >>

\* C14: a log that is dropped, or whose run the engine rejects, ends neither the
\* subscription nor the process: its handler returns and the listener goes on.
C14_EventFailureNotFatal ==
    last.n > 0 /\ last.outcome # "run" =>
        /\ panicked # last.outcome
        /\ ~(logListener[LastSlot] = "handling" /\ cur[LastSlot].n = last.n)

\* The logs whose data has no JSON document behind the 64-byte header.
UndecodableLogs ==
    {l \in Logs :
        LET data == LogTable[l].data
        IN  \/ Len(data) < 64
            \/ jsonUnmarshal(TrimRightZero(SubSeq(data, 65, Len(data)))).err}

\* C15: a request of the watching job whose payload cannot be decoded, data shorter
\* than the header included, yields a decode error: the log is dropped, BeginRun is not
\* called and the process goes on.
C15_UndecodableDropped ==
    /\ LastOfRunLog
    /\ HasRunLogSignature(LastLog)
    /\ NamesJob(LastLog, last.job)
    /\ last.log \in UndecodableLogs
    => /\ last.outcome = "decode_error"
       /\ last.beginRuns = 0
       /\ panicked # "slice bounds out of range"

EthLogSlot(j, k) == k \in 1..Len(AttemptOrder(j)) /\ AttemptOrder(j)[k].Type = InitiatorEthLog

\* C17: an EthLog subscription calls BeginRun exactly once for every log it handles,
\* whatever the log's topics are and whichever job they name.
C17_EthLogForwardsAll ==
    last.n > 0 /\ EthLogSlot(last.job, last.k) =>
        /\ last.decoded
        /\ last.beginRuns = 1
        /\ last.outcome \in {"run", "run_error"}
        /\ panicked = "" => logListener[LastSlot] # "handling" \/ cur[LastSlot].n # last.n

\* An EthLog subscription has started a run from a log of two topics.
C17_Witness ==
    /\ last.n > 0
    /\ EthLogSlot(last.job, last.k)
    /\ Len(LastLog.topics) = 2
    /\ last.beginRuns = 1
    /\ last.outcome = "run"

AugmentedKeys == {KeyAddress, KeyDataPrefix, KeyFunctionSelector}

\* A document without the members RunLogJSON adds.
WithoutAugmented(js) == SelectSeq(js, LAMBDA m : m[1] \notin AugmentedKeys)

\* The value of the member key of a document that has one.
MemberValue(js, key) == js[CHOOSE i \in 1..Len(js) : js[i][1] = key][2]

\* C16: decoding the encoding of a document returns the document: no error, the
\* document's members in their order apart from address, dataPrefix and
\* functionSelector, and these three with the values of the log.
C16_RoundTrip ==
    codec.phase = "decoded" =>
        /\ ~codec.out.panic
        /\ ~codec.out.err
        /\ WithoutAugmented(codec.out.js) = WithoutAugmented(codec.members)
        /\ \A key \in AugmentedKeys : \E i \in 1..Len(codec.out.js) : codec.out.js[i][1] = key
        /\ MemberValue(codec.out.js, KeyAddress) = AddressString(WatchedAddress)
        /\ MemberValue(codec.out.js, KeyDataPrefix) = HashHex(RequestIDTopic)
        /\ MemberValue(codec.out.js, KeyFunctionSelector) = FunctionSelector

\* A document of two members whose encoding ends in zero padding has been decoded.
C16_Witness ==
    /\ codec.phase = "decoded"
    /\ Len(codec.members) = 2
    /\ codec.data[Len(codec.data)] = 0
    /\ Len(WithoutAugmented(codec.out.js)) = 2

HandlerRuns(s) ==
    /\ logListener[s] = "handling"
    /\ handledCount' = handledCount + 1
    /\ << last'.job, last'.k >> = s

\* C19: once a subscription is closed its handler is not called again: no step runs the
\* handler of a subscription whose logNotifications channel is closed.
C19_NoHandlerAfterClose ==
    [][\A s \in Slots : HandlerRuns(s) => logNotifications[s] # "closed"]_vars

\* The answers came in pairs; the pairs before the last differ and the last is equal.
LastPairEqual(prompts) ==
    /\ Len(prompts) >= 2
    /\ Len(prompts) % 2 = 0
    /\ prompts[Len(prompts) - 1] = prompts[Len(prompts)]
    /\ \A i \in 1..((Len(prompts) \div 2) - 1) : prompts[2 * i - 1] # prompts[2 * i]

\* With accounts present: no account is made; a wrong password given calls Exiter(1)
\* and prompts nothing; without a password the prompts go on until one unlocks; and
\* Authenticate returns without a call of Exiter only when an Unlock has succeeded.
WithAccounts ==
    /\ auth.created = << >>
    /\ auth.phase = "returned" =>
          /\ auth.exits = << >> <=> auth.unlocked
          /\ auth.pwd # "" =>
                /\ auth.prompts = << >>
                /\ auth.unlocked <=> auth.pwd = AccountPassword
                /\ ~auth.unlocked => auth.exits = << 1 >>
          /\ auth.pwd = "" =>
                /\ auth.prompts # << >>
                /\ auth.prompts[Len(auth.prompts)] = AccountPassword
                /\ \A i \in 1..(Len(auth.prompts) - 1) : auth.prompts[i] # AccountPassword

\* Without accounts, prompted: one account is made, with the phrase of the first pair of
\* equal answers, and Exiter is not called.
CreatedByPrompting ==
    /\ Len(auth.created) <= 1
    /\ auth.exits = << >>
    /\ auth.created # << >> =>
          LastPairEqual(auth.prompts) /\ auth.created = << auth.prompts[Len(auth.prompts)] >>
    /\ auth.phase = "returned" => Len(auth.created) = 1

====
